---- MODULE Spec2Model ----
(***************************************************************************)
(* A model of the block device manager of stratisd                         *)
(* (src/engine/strat_engine/backstore/blockdevmgr.rs).                     *)
(*                                                                         *)
(* The manager owns an ordered list of member devices (block_devs) and the *)
(* time of the last metadata write (last_update_time).  The operations     *)
(* modelled are initialize, alloc_space, save_state, add,                  *)
(* remove_blockdevs, bind_clevis and unbind_clevis, the free function      *)
(* map_to_dm, and the device discovery of identify.rs (find_all).          *)
(* The per device handle (StratBlockDev),                                  *)
(* the device verification and initialisation helpers, the wipe helper and *)
(* the Clevis configuration helper live in sibling modules; they are       *)
(* modelled from their documented contracts.                               *)
(*                                                                         *)
(* Option<T> is modelled as a sequence of length at most one: <<>> is None *)
(* and <<x>> is Some(x).                                                   *)
(***************************************************************************)
EXTENDS Integers, Sequences, FiniteSets, Bags, TLC

(***************************************************************************)
(* Bounds of the model.                                                    *)
(***************************************************************************)
\* Number of block devices on the host.
NumDevs == 2
\* Largest single size requested from alloc_space.
MaxSize == 2
\* Longest list handed to an operation: the sizes of alloc_space, the
\* uuids of remove_blockdevs, the paths of add.
MaxArgs == 2
\* Longest metadata payload, in bytes.
MaxPayloadLen == 1
\* Largest reading of the wall clock.
MaxClock == 1
\* Number of members of the wide manager used for the metadata fan-out.
MaxFan == 12

\* const MAX_NUM_TO_WRITE: usize = 10;
MAX_NUM_TO_WRITE == 10

DevIds == 1..NumDevs
\* One uuid more than there are devices: a uuid that no member ever carries.
Uuids == 1..(NumDevs + 1)
PoolA == "poolA"
PoolB == "poolB"
Pools == {PoolA, PoolB}
Keys == {"K1", "K2"}
\* The manager never looks into a payload, only at its length: one byte
\* value is enough to tell payloads apart.
Bytes == {0}
Payloads == UNION {[1..n -> Bytes] : n \in 0..MaxPayloadLen}
\* Stamps stay below this cap (the guard that bounds the clock bump).
MaxStamp == MaxClock + 1

None == <<>>
Some(x) == <<x>>
IsSome(o) == o /= <<>>
Unwrap(o) == o[1]

Min(a, b) == IF a <= b THEN a ELSE b
Max(a, b) == IF a >= b THEN a ELSE b

RECURSIVE SumSeq(_)
SumSeq(s) == IF s = <<>> THEN 0 ELSE Head(s) + SumSeq(Tail(s))

\* All sequences over S of length at most n.
SeqsUpTo(S, n) == UNION {[1..k -> S] : k \in 0..n}
NoDup(s) == \A i, j \in 1..Len(s) : i /= j => s[i] /= s[j]
SeqRange(s) == {s[i] : i \in 1..Len(s)}

\* The ascending enumeration of a finite set of integers.
RECURSIVE SetToSeq(_)
SetToSeq(S) ==
    IF S = {} THEN <<>>
    ELSE LET m == CHOOSE x \in S : \A y \in S : x <= y
         IN  <<m>> \o SetToSeq(S \ {m})

(***************************************************************************)
(* The hardware: the size of each device, of the metadata region that      *)
(* initialisation reserves on it, and of the largest payload its metadata  *)
(* area accepts.                                                           *)
(***************************************************************************)
MetaSectors(d) == IF d % 3 = 0 THEN 2 ELSE 1
TotalSectors(d) == MetaSectors(d) + 1 + ((d + 1) % 2)
MaxMetadataBytes(d) == (d + 1) % 3

(***************************************************************************)
(* StratBlockDev: one member device.                                       *)
(*   used : the sectors the device's range allocator has given out, the    *)
(*          reserved metadata region [0, meta) included                    *)
(*   mda  : the newest payload stored in the metadata area, with its stamp *)
(*   luks_key : the key that unlocks the device ("" on a plain device)     *)
(***************************************************************************)
NewBlockDev(d, pool, enc, key) ==
    [uuid |-> d, device |-> d, pool_uuid |-> pool,
     total |-> TotalSectors(d), meta |-> MetaSectors(d),
     max_md |-> MaxMetadataBytes(d),
     used |-> 0..(MetaSectors(d) - 1),
     mda |-> None,
     encryption_info |-> enc,
     luks_key |-> IF enc = None THEN "" ELSE key]

Available(bd) == bd.total - Cardinality(bd.used)
TotalSize(bd) == bd.total
BdMetadataSize(bd) == bd.meta
BdMaxMetadataSize(bd) == bd.max_md

\* The maximal runs of consecutive sectors of a set, in ascending order,
\* as <<start, length>> pairs.
RECURSIVE Runs(_)
Runs(S) ==
    IF S = {} THEN <<>>
    ELSE LET lo == CHOOSE x \in S : \A y \in S : x <= y
             hi == CHOOSE x \in S : /\ \A y \in lo..x : y \in S
                                    /\ (x + 1) \notin S
                                    /\ x >= lo
         IN  <<<<lo, hi - lo + 1>>>> \o Runs(S \ (lo..hi))

\* StratBlockDev::request_space: first fit from the low sectors, best
\* effort: the runs handed out sum to min(n, available).
RequestSpace(bd, n) ==
    LET free == (0..(bd.total - 1)) \ bd.used
        want == Min(n, Cardinality(free))
        ord  == SetToSeq(free)
        take == {ord[i] : i \in 1..want}
    IN  [bd |-> [bd EXCEPT !.used = bd.used \cup take], segs |-> Runs(take)]

VARIABLES
    block_devs,         \* BlockDevMgr.block_devs: Seq of StratBlockDev
    last_update_time,   \* BlockDevMgr.last_update_time: Option<DateTime>
    disk,               \* per device: the pool of the Stratis header on it
    keyring,            \* the key registered under the key description
    outstanding,        \* bag of every segment alloc_space has handed out
    committed,          \* the last successfully saved payload (history)
    last                \* the last call: its arguments and its result

vars == <<block_devs, last_update_time, disk, keyring, outstanding,
          committed, last>>


(***************************************************************************)
(* SIZE methods                                                            *)
(***************************************************************************)
\* BlockDevMgr::avail_space
RECURSIVE AvailSpace(_)
AvailSpace(bds) ==
    IF bds = <<>> THEN 0 ELSE Available(Head(bds)) + AvailSpace(Tail(bds))

\* BlockDevMgr::size
RECURSIVE Size(_)
Size(bds) ==
    IF bds = <<>> THEN 0 ELSE TotalSize(Head(bds)) + Size(Tail(bds))

\* A slip: max_metadata_size() summed in place of metadata_size().
RECURSIVE MetadataSizeOfMax(_)
MetadataSizeOfMax(bds) ==
    IF bds = <<>> THEN 0
    ELSE BdMaxMetadataSize(Head(bds)) + MetadataSizeOfMax(Tail(bds))

\* BlockDevMgr::metadata_size
RECURSIVE MetadataSize(_)
MetadataSize(bds) ==
    IF bds = <<>> THEN 0
    ELSE BdMetadataSize(Head(bds)) + MetadataSize(Tail(bds))

(***************************************************************************)
(* alloc_space                                                             *)
(***************************************************************************)
\* BlkDevSegment::new(bd.uuid(), Segment::new(*bd.device(), start, length))
BlkDevSegment(bd, run) ==
    [uuid |-> bd.uuid, device |-> bd.device, start |-> run[1], length |-> run[2]]

BlkDevSegs(bd, runs) == [k \in 1..Len(runs) |-> BlkDevSegment(bd, runs[k])]

RunsSum(runs) == SumSeq([k \in 1..Len(runs) |-> runs[k][2]])
SegsSum(segs) == SumSeq([k \in 1..Len(segs) |-> segs[k].length])

\* A slip: only the first request is held against avail_space().
InsufficientForFirst(bds, sizes) ==
    sizes /= <<>> /\ AvailSpace(bds) < Head(sizes)

\* The check that opens alloc_space: total_needed against avail_space().
InsufficientSpace(bds, sizes) == AvailSpace(bds) < SumSeq(sizes)

\* A slip: every member is asked for the whole request, not for what is
\* still missing.
RECURSIVE AllocLoopWhole(_, _, _, _, _)
AllocLoopWhole(bds, i, needed, alloc, segs) ==
    IF i > Len(bds) \/ alloc = needed
    THEN [bds |-> bds, alloc |-> alloc, segs |-> segs]
    ELSE LET r == RequestSpace(bds[i], needed)
         IN  AllocLoopWhole([bds EXCEPT ![i] = r.bd], i + 1, needed,
                            alloc + RunsSum(r.segs),
                            segs \o BlkDevSegs(bds[i], r.segs))

\* A slip: the loop runs over copies of the members, so what a member gave
\* out is not recorded in the manager.
RECURSIVE AllocLoopOnCopies(_, _, _, _, _)
AllocLoopOnCopies(bds, i, needed, alloc, segs) ==
    IF i > Len(bds) \/ alloc = needed
    THEN [bds |-> bds, alloc |-> alloc, segs |-> segs]
    ELSE LET r == RequestSpace(bds[i], needed - alloc)
         IN  AllocLoopOnCopies(bds, i + 1, needed,
                               alloc + RunsSum(r.segs),
                               segs \o BlkDevSegs(bds[i], r.segs))

\* A slip: the members are gone over from the rear.
RECURSIVE AllocLoopFromRear(_, _, _, _, _)
AllocLoopFromRear(bds, i, needed, alloc, segs) ==
    IF i > Len(bds) \/ alloc = needed
    THEN [bds |-> bds, alloc |-> alloc, segs |-> segs]
    ELSE LET j == Len(bds) + 1 - i
             r == RequestSpace(bds[j], needed - alloc)
         IN  AllocLoopFromRear([bds EXCEPT ![j] = r.bd], i + 1, needed,
                               alloc + RunsSum(r.segs),
                               segs \o BlkDevSegs(bds[j], r.segs))

\* The inner loop of alloc_space: one request, over the members in order.
RECURSIVE AllocLoop(_, _, _, _, _)
AllocLoop(bds, i, needed, alloc, segs) ==
    IF i > Len(bds) \/ alloc = needed
    THEN [bds |-> bds, alloc |-> alloc, segs |-> segs]
    ELSE LET r == RequestSpace(bds[i], needed - alloc)
         IN  AllocLoop([bds EXCEPT ![i] = r.bd], i + 1, needed,
                       alloc + RunsSum(r.segs),
                       segs \o BlkDevSegs(bds[i], r.segs))

\* The outer loop of alloc_space: the requests in order.  A failed
\* assert_eq!(alloc, needed) is a panic that leaves the members as the
\* loops had changed them so far.
RECURSIVE AllocRequests(_, _, _)
AllocRequests(bds, sizes, lists) ==
    IF sizes = <<>>
    THEN [res |-> "some", bds |-> bds, lists |-> lists]
    ELSE LET r == AllocLoop(bds, 1, Head(sizes), 0, <<>>)
         IN  IF r.alloc /= Head(sizes)
             THEN [res |-> "panic", bds |-> r.bds, lists |-> <<>>]
             ELSE AllocRequests(r.bds, Tail(sizes), Append(lists, r.segs))

\* BlockDevMgr::alloc_space
AllocSpace(bds, sizes) ==
    IF InsufficientSpace(bds, sizes)
    THEN [res |-> "none", bds |-> bds, lists |-> <<>>]
    ELSE AllocRequests(bds, sizes, <<>>)

\* All segments of a result, as one sequence.
RECURSIVE Flatten(_)
Flatten(lists) ==
    IF lists = <<>> THEN <<>> ELSE Head(lists) \o Flatten(Tail(lists))

RECURSIVE BagOfSeq(_)
BagOfSeq(s) ==
    IF s = <<>> THEN EmptyBag ELSE SetToBag({Head(s)}) (+) BagOfSeq(Tail(s))

(***************************************************************************)
(* The record of the last call.                                            *)
(***************************************************************************)
\* The error a call returned: its kind and, where the error is that of one
\* device or uuid, which one (0 otherwise).
NoErr == [kind |-> "", uuid |-> 0]
Err(kind, uuid) == [kind |-> kind, uuid |-> uuid]

NoCall ==
    [op |-> "idle", res |-> "ok", err |-> NoErr,
     sizes |-> <<>>, lists |-> <<>>,
     uuids |-> <<>>, paths |-> <<>>, pool |-> "", added |-> <<>>,
     inspected |-> <<>>, io_ok |-> TRUE,
     payload |-> <<>>, now |-> 0, stamp |-> 0,
     attempted |-> <<>>, accepted |-> {}, wiped |-> {},
     loaded |-> None,
     pin |-> "", config |-> None, key_fs |-> FALSE, calls |-> <<>>,
     bsegs |-> <<>>, table |-> <<>>,
     udev |-> <<>>, scans |-> <<>>, enum_ok |-> <<>>, primary |-> {},
     pool_map |-> {},
     key_desc |-> None, fail_at |-> 0, mgr |-> None, key_fs_dropped |-> FALSE]

\* The manager has one owner, who makes one call at a time: a call is made
\* when none is in flight, and a call that panicked never returns.
Idle == last.op = "idle"

\* The caller takes the result of the call.
Return ==
    /\ ~Idle
    /\ last.res /= "panic"
    /\ last' = NoCall
    /\ UNCHANGED <<block_devs, last_update_time, disk, keyring, outstanding,
                   committed>>

\* alloc_space(sizes), sizes drawn from SizeLists
AllocOf(SizeLists) ==
    /\ Idle
    /\ \E sizes \in SizeLists :
         LET r == AllocSpace(block_devs, sizes)
         IN  /\ block_devs' = r.bds
             /\ outstanding' = outstanding (+) BagOfSeq(Flatten(r.lists))
             /\ last' = [NoCall EXCEPT !.op = "alloc", !.res = r.res,
                                       !.sizes = sizes, !.lists = r.lists]
    /\ UNCHANGED <<last_update_time, disk, keyring, committed>>

Alloc == AllocOf(SeqsUpTo(0..MaxSize, MaxArgs))
AllocUnit == AllocOf({<<1>>})


(***************************************************************************)
(* map_to_dm                                                               *)
(***************************************************************************)
\* BlkDevSegment::to_segment: the segment without the uuid of its device.
ToSegment(bseg) ==
    [start |-> bseg.start, length |-> bseg.length, device |-> bseg.device]

\* TargetLine::new(logical_start_offset, length,
\*                 Linear(LinearTargetParams::new(device, physical_start)))
TargetLine(logical_start_offset, length, device, physical_start_offset) ==
    [start |-> logical_start_offset, length |-> length,
     params |-> [device |-> device, start_offset |-> physical_start_offset]]

\* A slip: the offset is advanced before the line is built.
RECURSIVE MapToDmLoopEarly(_, _, _)
MapToDmLoopEarly(segments, table, logical_start_offset) ==
    IF segments = <<>> THEN table
    ELSE LET segment == Head(segments)
             line == TargetLine(logical_start_offset + segment.length,
                                segment.length, segment.device, segment.start)
         IN  MapToDmLoopEarly(Tail(segments), Append(table, line),
                              logical_start_offset + segment.length)

\* for segment in segments { table.push(line); logical_start_offset += length }
\* Sectors are 64 bits wide; the offsets of the segments of this model stay
\* far below 2^64.
RECURSIVE MapToDmLoop(_, _, _)
MapToDmLoop(segments, table, logical_start_offset) ==
    IF segments = <<>> THEN table
    ELSE LET segment == Head(segments)
             line == TargetLine(logical_start_offset, segment.length,
                                segment.device, segment.start)
         IN  MapToDmLoop(Tail(segments), Append(table, line),
                         logical_start_offset + segment.length)

MapToDm(bsegs) ==
    MapToDmLoop([k \in 1..Len(bsegs) |-> ToSegment(bsegs[k])], <<>>, 0)

\* The segments a caller may hand to map_to_dm: any device, any start, any
\* length (0 included), in any order and with repetitions.
Segments ==
    {[uuid |-> d, device |-> d, start |-> s, length |-> l] :
        d \in DevIds, s \in 0..MaxSize, l \in 0..MaxSize}
\* map_to_dm(bsegs): a free function, it touches no manager.
MapDm ==
    /\ Idle
    /\ \E n \in 0..MaxArgs : \E bsegs \in [1..n -> Segments] :
         last' = [NoCall EXCEPT !.op = "map_to_dm", !.bsegs = bsegs,
                                !.table = MapToDm(bsegs)]
    /\ UNCHANGED <<block_devs, last_update_time, disk, keyring, outstanding,
                   committed>>


(***************************************************************************)
(* identify.rs: discovery of the devices of Stratis pools.                 *)
(***************************************************************************)
\* One entry of the udev database, as the scans read it: the device's
\* ID_FS_TYPE ("stratis", another signature or claim, or none), whether
\* udev has initialized the entry, whether the entry marks a multipath
\* member ("err": the properties cannot be processed), the devnode and the
\* device number (None when the entry lacks them), and what opening the
\* devnode and reading the Stratis header gives: "open_err", "read_err",
\* "none" (no Stratis header) or the pool of the header.  An entry without
\* a devnode has nothing to open; an entry without a device number is taken
\* with a valid header, so that the number alone decides; an entry that
\* udev has not initialized is taken sound in everything else (no multipath
\* mark, devnode, number and header present), so that the lack of
\* initialization alone decides.
IdentOutcomes == {"open_err", "read_err", "none"} \cup Pools

UdevShapes ==
    {e \in [fs_type : {"stratis", "other", "none"},
            initialized : BOOLEAN,
            multipath : {"no", "yes", "err"},
            has_devnode : BOOLEAN,
            has_devnum : BOOLEAN,
            ident : IdentOutcomes] :
        /\ ~e.has_devnode => (~e.has_devnum /\ e.ident = "open_err")
        /\ (e.has_devnode /\ ~e.has_devnum) => e.ident = PoolA
        /\ ~e.initialized =>
              /\ e.multipath = "no"
              /\ e.has_devnode /\ e.has_devnum
              /\ e.ident \in Pools}

\* The entry of device d.
UdevEntry(d, e) ==
    [fs_type |-> e.fs_type, initialized |-> e.initialized,
     multipath |-> e.multipath,
     devnode |-> IF e.has_devnode THEN Some(d) ELSE None,
     devnum |-> IF e.has_devnum THEN Some(d) ELSE None,
     ident |-> e.ident]

\* A database: the entries in the order in which an enumerator yields
\* them, entry k being that of device k.
UdevDatabase(shapes) == [k \in 1..Len(shapes) |-> UdevEntry(k, shapes[k])]

\* udev::is_multipath_member
IsMultipathMember(dev) == dev.multipath

\* udev::decide_ownership: a multipath member is not for Stratis whatever
\* else its entry says; an error in processing the properties is an error.
DecideOwnership(dev) ==
    IF IsMultipathMember(dev) = "err" THEN "err"
    ELSE IF IsMultipathMember(dev) = "yes" THEN "Foreign"
    ELSE IF dev.fs_type = "stratis" THEN "Stratis"
    ELSE IF dev.fs_type = "none" THEN "Unowned"
    ELSE "Foreign"

\* device_to_devno_wrapper: absence of the device number is an error (None).
DeviceToDevnoWrapper(dev) == dev.devnum

\* device_identifiers_wrapper: Err, Ok(Err), Ok(Ok(None)) or
\* Ok(Ok(Some(pool_uuid))).
DeviceIdentifiersWrapper(dev) == dev.ident

\* A slip: a device whose header could not be read or is absent is taken
\* for a device of the first pool.
ProbeAnyHeader(dev) ==
    IF dev.devnode = None THEN None
    ELSE IF DeviceToDevnoWrapper(dev) = None THEN None
    ELSE Some([pool |-> IF DeviceIdentifiersWrapper(dev) \in Pools
                        THEN DeviceIdentifiersWrapper(dev) ELSE PoolA,
               device |-> Unwrap(DeviceToDevnoWrapper(dev)),
               devnode |-> Unwrap(dev.devnode)])

\* The filter_map step of both scans: Some((pool_uuid, devno, devnode)) for
\* a device with a devnode, a device number and a readable Stratis header,
\* None (after a log message) for any other.
Probe(dev) ==
    IF dev.devnode = None THEN None
    ELSE IF DeviceToDevnoWrapper(dev) = None THEN None
    ELSE IF DeviceIdentifiersWrapper(dev) \notin Pools THEN None
    ELSE Some([pool |-> DeviceIdentifiersWrapper(dev),
               device |-> Unwrap(DeviceToDevnoWrapper(dev)),
               devnode |-> Unwrap(dev.devnode)])

\* acc.entry(pool_uuid).or_insert_with(HashMap::new).insert(device, devnode):
\* the map as the set of its (pool, device, devnode) entries; an insert
\* replaces the entry of the same pool and device.
Insert(acc, t) ==
    {e \in acc : ~(e.pool = t.pool /\ e.device = t.device)} \cup {t}

\* The two filters of the primary scan.
KeepStratis(dev) ==
    /\ dev.initialized
    /\ IsMultipathMember(dev) = "no"

\* The two filters of the fallback scan.
KeepBlock(dev) ==
    /\ dev.initialized
    /\ DecideOwnership(dev) \in {"Stratis", "Unowned"}

\* filter, filter, filter_map, fold over the devices of the primary scan
RECURSIVE ScanStratis(_, _)
ScanStratis(devs, acc) ==
    IF devs = <<>> THEN acc
    ELSE LET dev == Head(devs)
             t == IF KeepStratis(dev) THEN Probe(dev) ELSE None
         IN  ScanStratis(Tail(devs),
                         IF t = None THEN acc ELSE Insert(acc, Unwrap(t)))

\* A slip: the scan stops at the first device it cannot use.
RECURSIVE ScanBlockAbort(_, _)
ScanBlockAbort(devs, acc) ==
    IF devs = <<>> THEN acc
    ELSE LET dev == Head(devs)
             t == IF KeepBlock(dev) THEN Probe(dev) ELSE None
         IN  IF t = None THEN acc
             ELSE ScanBlockAbort(Tail(devs), Insert(acc, Unwrap(t)))

\* filter, filter, filter_map, fold over the devices of the fallback scan
RECURSIVE ScanBlock(_, _)
ScanBlock(devs, acc) ==
    IF devs = <<>> THEN acc
    ELSE LET dev == Head(devs)
             t == IF KeepBlock(dev) THEN Probe(dev) ELSE None
         IN  ScanBlock(Tail(devs),
                       IF t = None THEN acc ELSE Insert(acc, Unwrap(t)))

\* enumerator.match_property("ID_FS_TYPE", "stratis"): the entries the
\* enumerator of the primary scan yields.
RECURSIVE MatchStratis(_)
MatchStratis(db) ==
    IF db = <<>> THEN <<>>
    ELSE IF Head(db).fs_type = "stratis"
         THEN <<Head(db)>> \o MatchStratis(Tail(db))
         ELSE MatchStratis(Tail(db))

\* find_all_stratis_devices: enum_ok is whether the context and the
\* enumerator could be made and scanned with.
FindAllStratisDevices(db, enum_ok) ==
    IF ~enum_ok THEN [res |-> "err", map |-> {}]
    ELSE [res |-> "ok", map |-> ScanStratis(MatchStratis(db), {})]

\* find_all_block_devices_with_stratis_signatures
FindAllBlockDevicesWithStratisSignatures(db, enum_ok) ==
    IF ~enum_ok THEN [res |-> "err", map |-> {}]
    ELSE [res |-> "ok", map |-> ScanBlock(db, {})]

\* A slip: the fallback also runs when the primary scan found devices.
UseFallbackAlways(pool_map) == TRUE

\* pool_map.is_empty()
UseFallback(pool_map) == pool_map = {}

\* find_all
FindAll(db, primary_ok, fallback_ok) ==
    LET p == FindAllStratisDevices(db, primary_ok)
    IN  IF p.res = "err"
        THEN [res |-> "err", map |-> {}, scans |-> <<"primary">>,
              enum_ok |-> <<FALSE>>, primary |-> {}]
        ELSE IF UseFallback(p.map)
        THEN LET f == FindAllBlockDevicesWithStratisSignatures(db, fallback_ok)
             IN  [res |-> f.res, map |-> f.map,
                  scans |-> <<"primary", "fallback">>,
                  enum_ok |-> <<TRUE, fallback_ok>>, primary |-> p.map]
        ELSE [res |-> "ok", map |-> p.map, scans |-> <<"primary">>,
              enum_ok |-> <<TRUE>>, primary |-> p.map]

\* find_all() on a host with the udev database db, for every outcome of the
\* enumerators that are used; it touches no manager.
Discover ==
    /\ Idle
    /\ \E n \in 0..NumDevs, primary_ok \in BOOLEAN, fallback_ok \in BOOLEAN :
        \E shapes \in [1..n -> UdevShapes] :
         LET db == UdevDatabase(shapes)
             r == FindAll(db, primary_ok, fallback_ok)
         IN  /\ ~primary_ok => fallback_ok
             /\ ~fallback_ok => Len(r.scans) = 2
             /\ last' = [NoCall EXCEPT !.op = "find_all", !.res = r.res,
                                       !.udev = db, !.scans = r.scans,
                                       !.enum_ok = r.enum_ok,
                                       !.primary = r.primary,
                                       !.pool_map = r.map]
    /\ UNCHANGED <<block_devs, last_update_time, disk, keyring, outstanding,
                   committed>>

(***************************************************************************)
(* save_state                                                              *)
(***************************************************************************)
\* Option<T>'s derived order: None is below every Some.
OptLE(a, b) ==
    IF a = None THEN TRUE
    ELSE IF b = None THEN FALSE
    ELSE Unwrap(a) <= Unwrap(b)

\* A slip: < in place of <=, so a clock that stands still repeats a stamp.
StampTimeStrict(current_time, lut) ==
    IF IsSome(lut) /\ current_time < Unwrap(lut)
    THEN Unwrap(lut) + 1 ELSE current_time

\* A slip: the stamp is the current time, whatever was written before.
StampTimeNow(current_time, lut) == current_time

\* The stamp save_state writes: the current time, or one nanosecond past
\* last_update_time when the current time is not more recent.
StampTime(current_time, lut) ==
    IF OptLE(Some(current_time), lut) THEN Unwrap(lut) + 1 ELSE current_time

\* The members (by position) whose metadata area can hold the payload.
Candidates(bds, metadata) ==
    {i \in 1..Len(bds) : BdMaxMetadataSize(bds[i]) >= Len(metadata)}

\* A slip: no cap, every candidate is written.
ChooseAll(cands, amount) == {SetToSeq(cands)}

\* IteratorRandom::choose_multiple(rng, amount): amount distinct elements
\* of the iterator picked at random, all of them when there are fewer.
\* The set of the possible picks, each in an order of attempt.
ChooseMultiple(cands, amount) ==
    {SetToSeq(A) : A \in {B \in SUBSET cands :
                            Cardinality(B) = Min(amount, Cardinality(cands))}}

\* StratBlockDev::save_state: the write fails when the payload exceeds the
\* metadata area or the I/O fails (io_ok); a failed write changes nothing.
BdSaveState(bd, stamp, metadata, io_ok) ==
    IF io_ok /\ Len(metadata) <= BdMaxMetadataSize(bd)
    THEN [ok |-> TRUE,
          bd |-> [bd EXCEPT !.mda = Some([time |-> stamp, data |-> metadata])]]
    ELSE [ok |-> FALSE, bd |-> bd]

\* A slip: & in place of | in the fold.
RECURSIVE FoldSaveAnd(_, _, _, _, _, _, _)
FoldSaveAnd(acc, oks, bds, chosen, stamp, metadata, io) ==
    IF chosen = <<>>
    THEN [saved |-> acc, oks |-> oks, bds |-> bds]
    ELSE LET i == Head(chosen)
             w == BdSaveState(bds[i], stamp, metadata, i \in io)
         IN  FoldSaveAnd(acc /\ w.ok, IF w.ok THEN oks \cup {i} ELSE oks,
                         [bds EXCEPT ![i] = w.bd], Tail(chosen),
                         stamp, metadata, io)

\* .fold(false, |acc, b| acc | b.save_state(&stamp_time, metadata).is_ok())
\* over the chosen members; io is the set of members whose I/O works.
RECURSIVE FoldSave(_, _, _, _, _, _, _)
FoldSave(acc, oks, bds, chosen, stamp, metadata, io) ==
    IF chosen = <<>>
    THEN [saved |-> acc, oks |-> oks, bds |-> bds]
    ELSE LET i == Head(chosen)
             w == BdSaveState(bds[i], stamp, metadata, i \in io)
         IN  FoldSave(acc \/ w.ok, IF w.ok THEN oks \cup {i} ELSE oks,
                      [bds EXCEPT ![i] = w.bd], Tail(chosen),
                      stamp, metadata, io)

\* A slip: last_update_time advances whether or not a write succeeded.
NextUpdateTimeAlways(saved, stamp, lut) == Some(stamp)

\* The tail of save_state: last_update_time advances on success only.
NextUpdateTime(saved, stamp, lut) == IF saved THEN Some(stamp) ELSE lut

\* BlockDevMgr::save_state, for one pick of the members and one outcome of
\* the writes.
SaveStateWith(bds, lut, metadata, current_time, chosen, io) ==
    LET stamp == StampTime(current_time, lut)
        f     == FoldSave(FALSE, {}, bds, chosen, stamp, metadata, io)
    IN  [res |-> IF f.saved THEN "ok" ELSE "err",
         bds |-> f.bds,
         oks |-> f.oks,
         lut |-> NextUpdateTime(f.saved, stamp, lut),
         stamp |-> stamp]

\* The members that hold the newest stored metadata: what a load reads.
NewestMembers(bds) ==
    {i \in 1..Len(bds) :
        /\ IsSome(bds[i].mda)
        /\ \A j \in 1..Len(bds) :
              IsSome(bds[j].mda) =>
                  Unwrap(bds[j].mda).time <= Unwrap(bds[i].mda).time}

\* What a load can return: the newest member's payload, or nothing when no
\* member stores any.
LoadState(bds) ==
    IF NewestMembers(bds) = {} THEN {None}
    ELSE {Some(Unwrap(bds[i].mda).data) : i \in NewestMembers(bds)}

\* What the writes to the chosen members may do, each outcome the set of
\* the members whose I/O works: any subset of them, or (few) none of them,
\* all of them or exactly one of them.
IoSets(chosen, few) ==
    IF few
    THEN {{}, SeqRange(chosen)} \cup {{c} : c \in SeqRange(chosen)}
    ELSE SUBSET SeqRange(chosen)

\* save_state(metadata), at clock reading now
SaveStateOf(few) ==
    /\ Idle
    /\ \E metadata \in Payloads, now \in 0..MaxClock :
         /\ StampTime(now, last_update_time) <= MaxStamp
         /\ \E chosen \in ChooseMultiple(Candidates(block_devs, metadata),
                                         MAX_NUM_TO_WRITE) :
              \E io \in IoSets(chosen, few) :
                LET r == SaveStateWith(block_devs, last_update_time,
                                       metadata, now, chosen, io)
                IN  /\ block_devs' = r.bds
                    /\ last_update_time' = r.lut
                    /\ committed' =
                         IF r.res = "ok"
                         THEN Some([data |-> metadata, time |-> r.stamp,
                                    removed |-> FALSE])
                         ELSE committed
                    /\ last' = [NoCall EXCEPT
                                  !.op = "save", !.res = r.res,
                                  !.payload = metadata, !.now = now,
                                  !.stamp = r.stamp,
                                  !.attempted =
                                     [k \in 1..Len(chosen) |->
                                          block_devs[chosen[k]].uuid],
                                  !.accepted =
                                     {block_devs[i].uuid : i \in r.oks}]
    /\ UNCHANGED <<disk, keyring, outstanding>>

SaveState == SaveStateOf(FALSE)

\* A load of the metadata: reads the newest member.
Load ==
    /\ Idle
    /\ \E data \in LoadState(block_devs) :
         last' = [NoCall EXCEPT !.op = "load", !.loaded = data]
    /\ UNCHANGED <<block_devs, last_update_time, disk, keyring, outstanding,
                   committed>>


(***************************************************************************)
(* remove_blockdevs                                                        *)
(***************************************************************************)
\* The scan of remove_blockdevs for one uuid:
\*     let blockdevs_last_index = self.block_devs.len() - 1;
\*     for i in 0..blockdevs_last_index { let index = blockdevs_last_index - i; .. }
\* The 0-based index of the member found, None when the scan finds none.
FindFromRear(bds, uuid) ==
    LET blockdevs_last_index == Len(bds) - 1
        hits == {i \in 0..(blockdevs_last_index - 1) :
                    bds[(blockdevs_last_index - i) + 1].uuid = uuid}
    IN  IF hits = {} THEN None
        ELSE LET i == CHOOSE h \in hits : \A g \in hits : h <= g
             IN  Some(blockdevs_last_index - i)

\* Vec::swap_remove(index): the last element takes the place of the one
\* removed.
SwapRemove(bds, index) ==
    LET n == Len(bds)
        front == SubSeq(bds, 1, n - 1)
    IN  IF index + 1 = n THEN front ELSE [front EXCEPT ![index + 1] = bds[n]]

\* The loop of remove_blockdevs over the uuids.  With no member at all
\* len() - 1 underflows: a panic in a build with overflow checks, and
\* without them an index of usize::MAX into the empty Vec, a panic too.
RECURSIVE RemoveLoop(_, _, _)
RemoveLoop(bds, uuids, removed) ==
    IF uuids = <<>>
    THEN [res |-> "found", err |-> NoErr, bds |-> bds, removed |-> removed]
    ELSE IF Len(bds) = 0
    THEN [res |-> "panic", err |-> NoErr, bds |-> bds, removed |-> removed]
    ELSE LET index == FindFromRear(bds, Head(uuids))
         IN  IF index = None
             THEN [res |-> "err", err |-> Err("not_found", Head(uuids)),
                   bds |-> bds, removed |-> removed]
             ELSE RemoveLoop(SwapRemove(bds, Unwrap(index)), Tail(uuids),
                             Append(removed, bds[Unwrap(index) + 1]))

\* wipe_blockdevs: every device is asked to erase its header; the call
\* fails when one of them could not (wipe_ok: those whose I/O works).
WipeBlockdevs(dsk, removed, wipe_ok) ==
    LET wiped == {removed[k].device : k \in 1..Len(removed)} \cap wipe_ok
    IN  [ok |-> \A k \in 1..Len(removed) : removed[k].device \in wipe_ok,
         wiped |-> wiped,
         disk |-> [d \in DOMAIN dsk |-> IF d \in wiped THEN None ELSE dsk[d]]]

\* BlockDevMgr::remove_blockdevs
RemoveBlockdevs(bds, dsk, uuids, wipe_ok) ==
    LET r == RemoveLoop(bds, uuids, <<>>)
        w == WipeBlockdevs(dsk, r.removed, wipe_ok)
    IN  IF r.res /= "found"
        THEN [res |-> r.res, err |-> r.err, bds |-> r.bds, disk |-> dsk,
              wiped |-> {}]
        ELSE [res |-> IF w.ok THEN "ok" ELSE "err",
              err |-> IF w.ok THEN NoErr ELSE Err("wipe", 0),
              bds |-> r.bds, disk |-> w.disk, wiped |-> w.wiped]

\* A slip: the set of current uuids is left empty, as in initialize.
MemberUuidsNone(bds) == {}

MemberUuids(bds) == {bds[i].uuid : i \in 1..Len(bds)}

\* The devices a call hands to wipe_blockdevs.
Removed(bds, uuids) ==
    LET r == RemoveLoop(bds, uuids, <<>>)
    IN  IF r.res = "found" THEN {r.removed[k].device : k \in 1..Len(r.removed)}
        ELSE {}

\* Nothing but the metadata region is allocated on the member.
Unused(bd) == bd.used = 0..(bd.meta - 1)

\* remove_blockdevs(uuids), uuids drawn from UuidLists.  The caller ensures
\* that none of the blockdevs named has had any space allocated from it.
RemoveOf(UuidLists) ==
    /\ Idle
    /\ \E uuids \in UuidLists :
         /\ \A i \in 1..Len(block_devs) :
               block_devs[i].uuid \in SeqRange(uuids) => Unused(block_devs[i])
         /\ \E wipe_ok \in SUBSET Removed(block_devs, uuids) :
              LET r == RemoveBlockdevs(block_devs, disk, uuids, wipe_ok)
              IN  /\ block_devs' = r.bds
                  /\ disk' = r.disk
                  /\ last' = [NoCall EXCEPT !.op = "remove", !.res = r.res,
                                            !.err = r.err, !.uuids = uuids,
                                            !.wiped = r.wiped]
    /\ committed' = IF committed = None THEN None
                    ELSE Some([Unwrap(committed) EXCEPT !.removed = TRUE])
    /\ UNCHANGED <<last_update_time, keyring, outstanding>>

Remove == RemoveOf(SeqsUpTo(Uuids, MaxArgs))
RemoveUnit == RemoveOf({<<u>> : u \in DevIds})

(***************************************************************************)
(* add                                                                     *)
(***************************************************************************)
\* process_and_verify_devices: a path that bears the header of another
\* pool, or of this pool without being one of its members, is an error; a
\* path that is a member already is dropped; an unclaimed path is kept.
RECURSIVE ProcessAndVerifyDevices(_, _, _, _)
ProcessAndVerifyDevices(pool_uuid, current_uuids, paths, dsk) ==
    IF paths = <<>> THEN [ok |-> TRUE, devs |-> <<>>]
    ELSE LET d == Head(paths)
             rest == ProcessAndVerifyDevices(pool_uuid, current_uuids,
                                             Tail(paths), dsk)
         IN  IF dsk[d] = None
             THEN [ok |-> rest.ok, devs |-> <<d>> \o rest.devs]
             ELSE IF dsk[d] = Some(pool_uuid) /\ d \in current_uuids
             THEN rest
             ELSE [ok |-> FALSE, devs |-> <<>>]

\* No member's encryption info returned.
EncryptionInfoNone(bds) == None

\* BlockDevMgr::encryption_info: the first member's; the assertion is that
\* every member agrees with it.
EncryptionInfo(bds) == IF bds = <<>> THEN None ELSE bds[1].encryption_info
EncryptionAgrees(bds) ==
    \A i \in 1..Len(bds) : bds[i].encryption_info = EncryptionInfo(bds)

\* CryptActivationHandle::can_unlock: the key in the keyring is the one
\* that unlocks the device.
CanUnlock(bd, key) == bd.luks_key = key

\* The probe left out.
HasValidPassphraseAlways(bds, key) == TRUE

\* BlockDevMgr::has_valid_passphrase
HasValidPassphrase(bds, key) == CanUnlock(bds[1], key)

\* The check left out.
PoolMismatchNever(bds, pool_uuid) == FALSE

\* The check made of the manager without members only.
PoolMismatchOnEmpty(bds, pool_uuid) == bds = <<>>

\* add's first check:
\*     let this_pool_uuid = self.block_devs.get(0).map(|bd| bd.pool_uuid());
\*     if this_pool_uuid.is_some() && this_pool_uuid != Some(pool_uuid)
PoolMismatch(bds, pool_uuid) ==
    LET this_pool_uuid == IF bds = <<>> THEN None ELSE Some(bds[1].pool_uuid)
    IN  IsSome(this_pool_uuid) /\ this_pool_uuid /= Some(pool_uuid)

\* BlockDevMgr::add, for one outcome of the I/O of initialize_devices (which
\* has no I/O to do when no device is left to initialize).
\* inspected: the paths handed to process_and_verify_devices.
AddPaths(bds, dsk, key, pool_uuid, paths, io_ok) ==
    LET unchanged(res, kind) ==
            [res |-> res, err |-> Err(kind, 0), bds |-> bds, disk |-> dsk,
             added |-> <<>>,
             inspected |-> IF kind = "Invalid:pool" THEN <<>> ELSE paths]
        devices == ProcessAndVerifyDevices(pool_uuid, MemberUuids(bds),
                                           paths, dsk)
        encryption_info == EncryptionInfo(bds)
        new == [k \in 1..Len(devices.devs) |->
                   NewBlockDev(devices.devs[k], pool_uuid, encryption_info, key)]
    IN  IF PoolMismatch(bds, pool_uuid)
        THEN unchanged("err", "Invalid:pool")
        ELSE IF ~devices.ok THEN unchanged("err", "devices")
        ELSE IF ~EncryptionAgrees(bds) THEN unchanged("panic", "assertion")
        ELSE IF IsSome(encryption_info) /\ ~HasValidPassphrase(bds, key)
        THEN unchanged("err", "Invalid:key")
        ELSE IF ~io_ok /\ devices.devs /= <<>>
        THEN unchanged("err", "initialize")
        ELSE [res |-> "ok", err |-> NoErr, inspected |-> paths,
              bds |-> bds \o new,
              disk |-> [d \in DOMAIN dsk |->
                          IF d \in SeqRange(devices.devs)
                          THEN Some(pool_uuid) ELSE dsk[d]],
              added |-> devices.devs]

PathLists == {p \in SeqsUpTo(DevIds, MaxArgs) : p /= <<>> /\ NoDup(p)}

\* add(pool_uuid, paths), the arguments drawn from PoolSet and Paths
AddOf(PoolSet, Paths) ==
    /\ Idle
    /\ \E pool_uuid \in PoolSet, paths \in Paths, io_ok \in BOOLEAN :
         LET r == AddPaths(block_devs, disk, keyring, pool_uuid, paths, io_ok)
         IN  /\ io_ok \/ AddPaths(block_devs, disk, keyring, pool_uuid,
                                  paths, TRUE).added /= <<>>
             /\ block_devs' = r.bds
             /\ disk' = r.disk
             /\ last' = [NoCall EXCEPT !.op = "add", !.res = r.res,
                                       !.err = r.err,
                                       !.pool = pool_uuid, !.paths = paths,
                                       !.added = r.added,
                                       !.inspected = r.inspected,
                                       !.io_ok = io_ok]
    /\ UNCHANGED <<last_update_time, keyring, outstanding, committed>>

Add == AddOf(Pools, PathLists)
AddUnit == AddOf({PoolA}, {<<d>> : d \in DevIds})

(***************************************************************************)
(* bind_clevis and unbind_clevis                                           *)
(***************************************************************************)
\* The Clevis pins and configurations of the calls.  A configuration is a
\* JSON value: an object with a url and, possibly, the key
\* "stratis:tang:trust_url" set to true, or a value that is no object.
Pins == {"tang", "tpm2"}
Urls == {"u1", "u2"}
Configs ==
    [url : Urls, trust_url : BOOLEAN, object : {TRUE}]
        \cup {[url |-> "", trust_url |-> FALSE, object |-> FALSE]}

\* interpret_clevis_config(&pin, &mut clevis_info): for the pin tang the
\* key trust_url is taken out of the configuration and its value returned;
\* a configuration that is no object is an error.  Other pins are left
\* alone.
InterpretClevisConfig(pin, config) ==
    IF pin = "tang"
    THEN IF config.object
         THEN [ok |-> TRUE, config |-> [config EXCEPT !.trust_url = FALSE],
               yes |-> config.trust_url]
         ELSE [ok |-> FALSE, config |-> config, yes |-> FALSE]
    ELSE [ok |-> TRUE, config |-> config, yes |-> FALSE]

\* StratBlockDev::bind_clevis: on success the device records the binding.
BdBindClevis(bd, pin, config, ok) ==
    IF ok
    THEN [bd EXCEPT !.encryption_info =
             Some([Unwrap(bd.encryption_info) EXCEPT
                      !.clevis_info = Some(<<pin, config>>)])]
    ELSE bd

\* StratBlockDev::unbind_clevis: on success the device has no binding.
BdUnbindClevis(bd, ok) ==
    IF ok /\ IsSome(bd.encryption_info)
    THEN [bd EXCEPT !.encryption_info =
             Some([Unwrap(bd.encryption_info) EXCEPT !.clevis_info = None])]
    ELSE bd

\* One call on a member, as the manager makes it.
DevCall(fn, bd, ok) == [fn |-> fn, uuid |-> bd.uuid, ok |-> ok]

\* A slip: the rollback record is dropped without a call on its members.
RollbackLoopNone(bds, j, n, unbind_ok, calls) == [bds |-> bds, calls |-> calls]

\* rollback_loop: unbind on every member of rollback_record (the members
\* 1..n), failures logged only.
RECURSIVE RollbackLoop(_, _, _, _, _)
RollbackLoop(bds, j, n, unbind_ok, calls) ==
    IF j > n THEN [bds |-> bds, calls |-> calls]
    ELSE RollbackLoop([bds EXCEPT ![j] = BdUnbindClevis(bds[j], j \in unbind_ok)],
                      j + 1, n, unbind_ok,
                      Append(calls, DevCall("unbind", bds[j], j \in unbind_ok)))

\* The rollback left out: the members bound before the failure stay bound.
BindClevisLoopNoRollback(bds, i, pin, config, bind_ok, unbind_ok, calls) ==
    LET n == Len(bds)
        failed == (1..n) \ bind_ok
        k == IF failed = {} THEN n + 1
             ELSE CHOOSE f \in failed : \A g \in failed : f <= g
    IN  [res |-> IF k > n THEN "true" ELSE "err",
         err |-> IF k > n THEN NoErr ELSE Err("bind", bds[k].uuid),
         bds |-> [m \in 1..n |-> BdBindClevis(bds[m], pin, config, m < k)],
         calls |-> [m \in 1..Min(k, n) |-> DevCall("bind", bds[m], m < k)]]

\* bind_clevis_loop: bind the members in order; at the first failure roll
\* back the members bound so far and return the error of the bind.
RECURSIVE BindClevisLoop(_, _, _, _, _, _, _)
BindClevisLoop(bds, i, pin, config, bind_ok, unbind_ok, calls) ==
    IF i > Len(bds)
    THEN [res |-> "true", err |-> NoErr, bds |-> bds, calls |-> calls]
    ELSE IF i \notin bind_ok
    THEN LET rb == RollbackLoop(bds, 1, i - 1, unbind_ok,
                                Append(calls, DevCall("bind", bds[i], FALSE)))
         IN  [res |-> "err", err |-> Err("bind", bds[i].uuid),
              bds |-> rb.bds, calls |-> rb.calls]
    ELSE BindClevisLoop([bds EXCEPT ![i] = BdBindClevis(bds[i], pin, config, TRUE)],
                        i + 1, pin, config, bind_ok, unbind_ok,
                        Append(calls, DevCall("bind", bds[i], TRUE)))

\* The comparison of bind_clevis made with the configuration as given.
SameBindingAsGiven(info, pin, given, interpreted) == info = <<pin, given>>

\* bind_clevis: info == &clevis_tuple, the tuple made of the pin and the
\* configuration as interpret_clevis_config left it.
SameBinding(info, pin, given, interpreted) == info = <<pin, interpreted>>

\* BlockDevMgr::bind_clevis, for one outcome of MemoryPrivateFilesystem::new
\* (keyfs_ok) and of the calls on the devices (the members whose bind, and
\* whose unbind, succeeds).  key_fs is a local of the call: it is dropped
\* when the call returns, with the error of the loop or with Ok(true).
BindClevis(bds, pin, clevis_info, keyfs_ok, bind_ok, unbind_ok) ==
    LET unchanged(res, kind) ==
            [res |-> res, err |-> Err(kind, 0), bds |-> bds,
             key_fs |-> FALSE, key_fs_dropped |-> FALSE, calls |-> <<>>]
        encryption_info == EncryptionInfo(bds)
        interp == InterpretClevisConfig(pin, clevis_info)
    IN  IF ~EncryptionAgrees(bds) THEN unchanged("panic", "assertion")
        ELSE IF encryption_info = None THEN unchanged("err", "not_encrypted")
        ELSE IF ~interp.ok THEN unchanged("err", "interpret")
        ELSE IF IsSome(Unwrap(encryption_info).clevis_info)
        THEN IF SameBinding(Unwrap(Unwrap(encryption_info).clevis_info),
                            pin, clevis_info, interp.config)
             THEN [unchanged("false", "") EXCEPT !.err = NoErr]
             ELSE unchanged("err", "already_bound")
        ELSE IF ~keyfs_ok THEN unchanged("err", "key_fs")
        ELSE LET r == BindClevisLoop(bds, 1, pin, interp.config,
                                     bind_ok, unbind_ok, <<>>)
             IN  [res |-> r.res, err |-> r.err, bds |-> r.bds,
                  key_fs |-> TRUE, key_fs_dropped |-> TRUE,
                  calls |-> r.calls]

\* The loop going on after a failure, the error returned at the end.
UnbindLoopAll(bds, i, unbind_ok, calls) ==
    LET n == Len(bds)
        failed == (1..n) \ unbind_ok
    IN  [res |-> IF failed = {} THEN "true" ELSE "err",
         err |-> IF failed = {} THEN NoErr
                 ELSE Err("unbind",
                          bds[CHOOSE k \in failed :
                                 \A m \in failed : k <= m].uuid),
         bds |-> [k \in 1..n |-> BdUnbindClevis(bds[k], k \in unbind_ok)],
         calls |-> [k \in 1..n |-> DevCall("unbind", bds[k], k \in unbind_ok)]]

\* The loop of unbind_clevis: unbind the members in order; res? returns the
\* error of the first unbind that fails.
RECURSIVE UnbindLoop(_, _, _, _)
UnbindLoop(bds, i, unbind_ok, calls) ==
    IF i > Len(bds)
    THEN [res |-> "true", err |-> NoErr, bds |-> bds, calls |-> calls]
    ELSE IF i \notin unbind_ok
    THEN [res |-> "err", err |-> Err("unbind", bds[i].uuid), bds |-> bds,
          calls |-> Append(calls, DevCall("unbind", bds[i], FALSE))]
    ELSE UnbindLoop([bds EXCEPT ![i] = BdUnbindClevis(bds[i], TRUE)],
                    i + 1, unbind_ok,
                    Append(calls, DevCall("unbind", bds[i], TRUE)))

\* The early return left out.
ClevisInfoIsNoneNever(info) == FALSE

\* unbind_clevis: info.clevis_info.is_none()
ClevisInfoIsNone(info) == info.clevis_info = None

\* BlockDevMgr::unbind_clevis
UnbindClevis(bds, unbind_ok) ==
    LET unchanged(res, kind) ==
            [res |-> res, err |-> Err(kind, 0), bds |-> bds, calls |-> <<>>]
        encryption_info == EncryptionInfo(bds)
    IN  IF ~EncryptionAgrees(bds) THEN unchanged("panic", "assertion")
        ELSE IF encryption_info = None THEN unchanged("err", "not_encrypted")
        ELSE IF ClevisInfoIsNone(Unwrap(encryption_info))
        THEN [unchanged("false", "") EXCEPT !.err = NoErr]
        ELSE UnbindLoop(bds, 1, unbind_ok, <<>>)

\* bind_clevis(pin, clevis_info), with every outcome of the creation of the
\* key filesystem and of the calls on the devices (one outcome where the
\* call does not get that far).
Bind ==
    /\ Idle
    /\ \E pin \in Pins, clevis_info \in Configs, keyfs_ok \in BOOLEAN,
          bind_ok \in SUBSET (1..Len(block_devs)),
          unbind_ok \in SUBSET (1..Len(block_devs)) :
         LET n == Len(block_devs)
             r == BindClevis(block_devs, pin, clevis_info, keyfs_ok,
                             bind_ok, unbind_ok)
         IN  /\ r.key_fs \/ (bind_ok = 1..n /\ unbind_ok = 1..n)
             /\ keyfs_ok \/ r.err.kind = "key_fs"
             /\ block_devs' = r.bds
             /\ last' = [NoCall EXCEPT !.op = "bind", !.res = r.res,
                                       !.err = r.err, !.pin = pin,
                                       !.config = Some(clevis_info),
                                       !.key_fs = r.key_fs,
                                       !.key_fs_dropped = r.key_fs_dropped,
                                       !.calls = r.calls]
    /\ UNCHANGED <<last_update_time, disk, keyring, outstanding, committed>>

\* unbind_clevis(), with every outcome of the calls on the devices (one
\* outcome where the call does not get that far).
Unbind ==
    /\ Idle
    /\ \E unbind_ok \in SUBSET (1..Len(block_devs)) :
         LET n == Len(block_devs)
             r == UnbindClevis(block_devs, unbind_ok)
         IN  /\ unbind_ok = 1..n \/ r.calls /= <<>>
             /\ block_devs' = r.bds
             /\ last' = [NoCall EXCEPT !.op = "unbind", !.res = r.res,
                                       !.err = r.err, !.calls = r.calls]
    /\ UNCHANGED <<last_update_time, disk, keyring, outstanding, committed>>

\* The owner of the host puts another key under the key description.
SwapKey ==
    /\ Idle
    /\ \E key \in Keys : key /= keyring /\ keyring' = key
    /\ UNCHANGED <<block_devs, last_update_time, disk, outstanding,
                   committed, last>>

(***************************************************************************)
(* initialize                                                              *)
(***************************************************************************)
\* initialize_devices, failing at device fail_at of devs (0: at none).
\* The devices are initialized in order; when one fails, the headers of the
\* devices initialized before it are wiped and the error is returned.
InitializeDevicesFailing(devs, pool_uuid, encryption_info, key, dsk, fail_at) ==
    LET written == SubSeq(devs, 1, fail_at - 1)
        initialized == [k \in 1..Len(written) |->
                           NewBlockDev(written[k], pool_uuid, encryption_info,
                                       key)]
        dsk_written == [d \in DOMAIN dsk |->
                           IF d \in SeqRange(written) THEN Some(pool_uuid)
                           ELSE dsk[d]]
    IN  [ok |-> FALSE, bds |-> <<>>,
         disk |-> WipeBlockdevs(dsk_written, initialized, DOMAIN dsk).disk]

InitializeDevices(devs, pool_uuid, encryption_info, key, dsk, fail_at) ==
    IF fail_at \in 1..Len(devs)
    THEN InitializeDevicesFailing(devs, pool_uuid, encryption_info, key, dsk,
                                  fail_at)
    ELSE [ok |-> TRUE,
          bds |-> [k \in 1..Len(devs) |->
                      NewBlockDev(devs[k], pool_uuid, encryption_info, key)],
          disk |-> [d \in DOMAIN dsk |->
                       IF d \in SeqRange(devs) THEN Some(pool_uuid)
                       ELSE dsk[d]]]

\* A slip: the paths are initialized without being verified.
InitializeMgrUnverified(dsk, key, pool_uuid, paths, key_desc, udev_ok, fail_at) ==
    LET encryption_info ==
            IF key_desc = None THEN None
            ELSE Some([key_description |-> Unwrap(key_desc),
                       clevis_info |-> None])
        r == InitializeDevices(paths, pool_uuid, encryption_info, key, dsk,
                               fail_at)
    IN  IF ~r.ok
        THEN [res |-> "err", err |-> Err("initialize", 0), mgr |-> None,
              disk |-> r.disk]
        ELSE [res |-> "ok", err |-> NoErr,
              mgr |-> Some([block_devs |-> r.bds, last_update_time |-> None]),
              disk |-> r.disk]

\* BlockDevMgr::initialize.  udev_ok: the ownership check of
\* process_and_verify_devices passes on every path.
InitializeMgr(dsk, key, pool_uuid, paths, key_desc, udev_ok, fail_at) ==
    LET devices == ProcessAndVerifyDevices(pool_uuid, {}, paths, dsk)
        encryption_info ==
            IF key_desc = None THEN None
            ELSE Some([key_description |-> Unwrap(key_desc),
                       clevis_info |-> None])
        r == InitializeDevices(devices.devs, pool_uuid, encryption_info, key,
                               dsk, fail_at)
    IN  IF ~udev_ok \/ ~devices.ok
        THEN [res |-> "err", err |-> Err("devices", 0), mgr |-> None,
              disk |-> dsk]
        ELSE IF ~r.ok
        THEN [res |-> "err", err |-> Err("initialize", 0), mgr |-> None,
              disk |-> r.disk]
        ELSE [res |-> "ok", err |-> NoErr,
              mgr |-> Some([block_devs |-> r.bds, last_update_time |-> None]),
              disk |-> r.disk]

\* initialize(pool_uuid, paths, _, key_desc) for another manager: the
\* manager at hand is not involved, the devices of the host are.
Initialize ==
    /\ Idle
    /\ \E pool_uuid \in Pools, paths \in PathLists,
          key_desc \in {None, Some("kd")}, udev_ok \in BOOLEAN,
          fail_at \in 0..MaxArgs :
         LET r == InitializeMgr(disk, keyring, pool_uuid, paths, key_desc,
                                udev_ok, fail_at)
         IN  /\ fail_at <= Len(paths)
             /\ fail_at > 0 =>
                   /\ udev_ok
                   /\ InitializeMgr(disk, keyring, pool_uuid, paths, key_desc,
                                    TRUE, 0).res = "ok"
             /\ disk' = r.disk
             /\ last' = [NoCall EXCEPT !.op = "initialize", !.res = r.res,
                                       !.err = r.err, !.pool = pool_uuid,
                                       !.paths = paths, !.key_desc = key_desc,
                                       !.fail_at = fail_at, !.mgr = r.mgr]
    /\ UNCHANGED <<block_devs, last_update_time, keyring, outstanding,
                   committed>>

(***************************************************************************)
(* The manager as BlockDevMgr::initialize leaves it.                       *)
(***************************************************************************)
\* initialize(PoolA, paths, _, key_desc): key_desc drawn from KeyDescs (an
\* Option).  The other devices of the host are unclaimed or bear the header
\* of another pool.
InitWith(KeyDescs) ==
    /\ \E paths \in {p \in SeqsUpTo(DevIds, NumDevs) : NoDup(p)},
          key_desc \in KeyDescs :
         /\ block_devs =
               [k \in 1..Len(paths) |->
                   NewBlockDev(paths[k], PoolA,
                               IF key_desc = None THEN None
                               ELSE Some([key_description |-> Unwrap(key_desc),
                                          clevis_info |-> None]),
                               "K1")]
         /\ disk \in {f \in [DevIds -> {None, Some(PoolA), Some(PoolB)}] :
                         \A d \in DevIds :
                             (f[d] = Some(PoolA)) <=> (d \in SeqRange(paths))}
    /\ last_update_time = None
    /\ keyring = "K1"
    /\ outstanding = EmptyBag
    /\ committed = None
    /\ last = NoCall

\* A manager without encryption.
Init == InitWith({None})

(***************************************************************************)
(* Specifications.  The full product of the operations with their full     *)
(* argument sets is beyond exhaustive search, so each specification takes  *)
(* the operations of one concern with their full argument sets.            *)
(***************************************************************************)
\* Membership and allocation.
Next == Alloc \/ Add \/ Remove \/ Return
Spec == Init /\ [][Next]_vars

\* Metadata writes.
NextSave == SaveState \/ Load \/ Return
SpecSave == Init /\ [][NextSave]_vars

\* Metadata writes between membership changes and allocations, the latter
\* with unit arguments.
NextDur == SaveState \/ Load \/ AddUnit \/ RemoveUnit \/ AllocUnit \/ Return
SpecDur == Init /\ [][NextDur]_vars


\* Encryption: a manager initialized with or without a key description,
\* its membership changes, the Clevis bindings and the key in the keyring.
InitEnc == InitWith({None, Some("kd")})
NextEnc == Add \/ Remove \/ Bind \/ Unbind \/ SwapKey \/ Return
SpecEnc == InitEnc /\ [][NextEnc]_vars

\* The free functions; no manager is involved.
InitDm ==
    /\ block_devs = <<>>
    /\ disk = [d \in DevIds |-> None]
    /\ last_update_time = None
    /\ keyring = "K1"
    /\ outstanding = EmptyBag
    /\ committed = None
    /\ last = NoCall
NextDm == MapDm \/ Return
SpecDm == InitDm /\ [][NextDm]_vars

\* BlockDevMgr::new(block_devs, None): the manager of an existing encrypted
\* pool, made of the devices found on the host.  The members bear the same
\* key description; the passphrase of each is the one its LUKS header was
\* formatted with, the key that was in the keyring at that time.
InitNew ==
    /\ \E paths \in PathLists :
         /\ \E luks_keys \in [1..Len(paths) -> Keys] :
               block_devs =
                   [k \in 1..Len(paths) |->
                       NewBlockDev(paths[k], PoolA,
                                   Some([key_description |-> "kd",
                                         clevis_info |-> None]),
                                   luks_keys[k])]
         /\ disk \in {f \in [DevIds -> {None, Some(PoolA), Some(PoolB)}] :
                         \A d \in DevIds :
                             (f[d] = Some(PoolA)) <=> (d \in SeqRange(paths))}
    /\ last_update_time = None
    /\ keyring \in Keys
    /\ outstanding = EmptyBag
    /\ committed = None
    /\ last = NoCall

\* Additions to an existing encrypted pool while the key in the keyring
\* changes.
NextKey == Add \/ SwapKey \/ Return
SpecKey == InitNew /\ [][NextKey]_vars

\* The making of further managers on the devices of the host.
NextInit == Initialize \/ Return
SpecInit == Init /\ [][NextInit]_vars

\* Discovery over every udev database.
NextDisc == Discover \/ Return
SpecDisc == InitDm /\ [][NextDisc]_vars

\* One save_state on a manager with more members than the cap on the
\* writes.  save_state does not depend on the order of the members, so the
\* members with room for a payload come first.
FanDev(i, max_md) ==
    [NewBlockDev(1, PoolA, None, "") EXCEPT
        !.uuid = i, !.device = i, !.max_md = max_md]

InitFan ==
    /\ \E n \in 0..MaxFan, e \in 0..MaxFan :
         /\ e <= n
         /\ block_devs = [i \in 1..n |->
                             FanDev(i, IF i <= e THEN MaxPayloadLen ELSE 0)]
         /\ disk = [d \in 1..n |-> Some(PoolA)]
    /\ last_update_time = None
    /\ keyring = "K1"
    /\ outstanding = EmptyBag
    /\ committed = None
    /\ last = NoCall

SaveFan == SaveStateOf(TRUE)
NextFan == SaveFan
SpecFan == InitFan /\ [][NextFan]_vars


(***************************************************************************)
(* Properties.                                                             *)
(***************************************************************************)
IsAllocStep == last'.op = "alloc"
IsSaveStep == last'.op = "save"
IsRemoveStep == last'.op = "remove"

\* C1. Alloc atomicity: an alloc_space whose sizes sum to more than
\* avail_space() returns None and changes no device state: the members,
\* and with them avail_space(), are after the call what they were before,
\* and no segment is handed out.
C1_AllocAtomic ==
    [][(IsAllocStep /\ SumSeq(last'.sizes) > AvailSpace(block_devs))
          => /\ last'.res = "none"
             /\ block_devs' = block_devs
             /\ AvailSpace(block_devs') = AvailSpace(block_devs)
             /\ outstanding' = outstanding]_vars

\* A refused call of two requests, each of which alone would have fitted.
C1_Witness ==
    /\ last.op = "alloc"
    /\ last.res = "none"
    /\ Len(last.sizes) = 2
    /\ \A k \in 1..2 : 0 < last.sizes[k] /\ last.sizes[k] <= AvailSpace(block_devs)

\* C2. Allocation totality: an alloc_space whose sizes sum to at most
\* avail_space() returns a result (the assertion alloc == needed holds),
\* with one segment list per request, in request order, whose lengths sum
\* to the size requested.
C2_AllocTotal ==
    [][(IsAllocStep /\ SumSeq(last'.sizes) <= AvailSpace(block_devs))
          => /\ last'.res = "some"
             /\ Len(last'.lists) = Len(last'.sizes)
             /\ \A k \in 1..Len(last'.sizes) :
                   SegsSum(last'.lists[k]) = last'.sizes[k]]_vars

\* A call of two requests served, one of them from two devices.
C2_Witness ==
    /\ last.op = "alloc"
    /\ last.res = "some"
    /\ Len(last.sizes) = 2
    /\ \A k \in 1..2 : last.sizes[k] > 0
    /\ \E k \in 1..2 :
          /\ Len(last.lists[k]) = 2
          /\ last.lists[k][1].device /= last.lists[k][2].device

Overlap(s, t) ==
    s.start < t.start + t.length /\ t.start < s.start + s.length

\* C3. Allocation disjointness: every segment handed out lies within its
\* device, and no two segments handed out on one device, by whichever
\* request or call, overlap (nor is one segment handed out twice).
C3_AllocDisjoint ==
    \A s \in BagToSet(outstanding) :
        /\ s.start + s.length <= TotalSectors(s.device)
        /\ CopiesIn(s, outstanding) = 1
        /\ \A t \in BagToSet(outstanding) :
              (t /= s /\ t.device = s.device) => ~Overlap(s, t)

\* Two calls have handed out segments on one device, the later call with
\* two requests.
C3_Witness ==
    /\ last.op = "alloc"
    /\ last.res = "some"
    /\ Len(last.sizes) = 2
    /\ \E s \in BagToSet(outstanding), t \in BagToSet(outstanding) :
          /\ s /= t
          /\ s.device = t.device
          /\ s \notin SeqRange(Flatten(last.lists))
          /\ t \in SeqRange(Flatten(last.lists))

RECURSIVE BagLengths(_, _)
BagLengths(B, S) ==
    IF S = {} THEN 0
    ELSE LET s == CHOOSE x \in S : TRUE
         IN  s.length * CopiesIn(s, B) + BagLengths(B, S \ {s})

\* C4. Size accounting: size() is metadata_size() plus avail_space() plus
\* the lengths of all segments handed out so far, in every state reached by
\* add, alloc_space and remove (of devices with nothing allocated).
C4_SizeAccounting ==
    Size(block_devs) =
        MetadataSize(block_devs) + AvailSpace(block_devs)
            + BagLengths(outstanding, BagToSet(outstanding))

\* Space has been handed out, and the last call removed a member.
C4_Witness ==
    /\ outstanding /= EmptyBag
    /\ last.op = "remove"
    /\ last.res = "ok"
    /\ last.wiped /= {}
    /\ Len(block_devs) > 0

\* Option<T>'s derived order, strict.
OptLT(a, b) == OptLE(a, b) /\ a /= b

\* C5. Metadata monotonicity: a successful save_state sets last_update_time
\* to a value strictly greater than the one before, namely to
\* max(now, last_update_time + 1), or to now when there was none, whatever
\* the clock reads.
C5_StampMonotonic ==
    [][(IsSaveStep /\ last'.res = "ok")
          => /\ OptLT(last_update_time, last_update_time')
             /\ last_update_time' =
                   Some(IF last_update_time = None THEN last'.now
                        ELSE Max(last'.now, Unwrap(last_update_time) + 1))]_vars

\* A successful save_state at a clock reading that is not past the time of
\* the previous save.
C5_Witness ==
    /\ last.op = "save"
    /\ last.res = "ok"
    /\ last.now < last.stamp
    /\ last_update_time = Some(last.stamp)

\* C6. Quorum of one: save_state succeeds exactly when at least one of the
\* members it attempts accepts the write; exactly then last_update_time is
\* the stamp written, which the accepting members then store with the
\* payload.
C6_SaveQuorum ==
    last.op = "save" =>
        /\ (last.res = "ok") <=> (last.accepted /= {})
        /\ (last_update_time = Some(last.stamp)) <=> (last.res = "ok")
        /\ last.accepted \subseteq SeqRange(last.attempted)
        /\ \A i \in 1..Len(block_devs) :
              block_devs[i].uuid \in last.accepted =>
                  block_devs[i].mda =
                      Some([time |-> last.stamp, data |-> last.payload])

\* A successful save_state in which one attempted member accepted the write
\* and another did not.
C6_Witness ==
    /\ last.op = "save"
    /\ last.res = "ok"
    /\ Cardinality(last.accepted) = 1
    /\ Len(last.attempted) = 2

\* C7. Zero successes: a save_state no member accepts returns an error and
\* changes nothing: last_update_time and every member's stored metadata and
\* stamp are what they were.
C7_SaveNoSuccess ==
    [][(IsSaveStep /\ last'.accepted = {})
          => /\ last'.res = "err"
             /\ last_update_time' = last_update_time
             /\ block_devs' = block_devs]_vars

\* A failed save_state after a successful one, with writes attempted.
C7_Witness ==
    /\ last.op = "save"
    /\ last.res = "err"
    /\ last.attempted /= <<>>
    /\ IsSome(last_update_time)
    /\ \E i \in 1..Len(block_devs) : IsSome(block_devs[i].mda)

\* The uuids of the members whose metadata area holds a payload.
Eligible(bds, payload) ==
    {bds[i].uuid : i \in {j \in 1..Len(bds) : bds[j].max_md >= Len(payload)}}

\* C8. Fan-out cap: one save_state attempts a write on exactly min(10, e)
\* distinct members, e the number of members whose max_metadata_size is at
\* least the payload size, and on no other member.
C8_FanOutCap ==
    last.op = "save" =>
        /\ Len(last.attempted) =
              Min(10, Cardinality(Eligible(block_devs, last.payload)))
        /\ NoDup(last.attempted)
        /\ SeqRange(last.attempted) \subseteq Eligible(block_devs, last.payload)

\* A save_state on a manager with more than ten members with room, and
\* with members without room.
C8_Witness ==
    /\ last.op = "save"
    /\ Cardinality(Eligible(block_devs, last.payload)) > 10
    /\ Cardinality(Eligible(block_devs, last.payload)) < Len(block_devs)
    /\ Len(last.attempted) = 10

\* A load returns the payload last saved, read from a member that holds it
\* under the stamp last_update_time.
LoadsCommitted ==
    /\ last.loaded = Some(Unwrap(committed).data)
    /\ NewestMembers(block_devs) /= {}
    /\ \A i \in NewestMembers(block_devs) :
          block_devs[i].mda =
              Some([time |-> Unwrap(last_update_time),
                    data |-> Unwrap(committed).data])

\* C9, as claimed. Durability: after a successful save_state(payload) every
\* later load made before the next successful save_state returns payload,
\* whatever add, remove, alloc_space or failed save_state calls come in
\* between.
C9_DurableOriginal ==
    (last.op = "load" /\ IsSome(committed)) => LoadsCommitted

\* C9, amended. Durability holds as long as remove_blockdevs has not been
\* called since the save: whatever add, alloc_space or failed save_state
\* calls come in between, the load returns payload.
C9_Durable ==
    (last.op = "load" /\ IsSome(committed) /\ ~Unwrap(committed).removed)
        => LoadsCommitted

\* A load after a save that not every member took, with space handed out
\* and a member that stores an older payload.
C9_Witness ==
    /\ last.op = "load"
    /\ IsSome(committed)
    /\ ~Unwrap(committed).removed
    /\ outstanding /= EmptyBag
    /\ \E i \in 1..Len(block_devs) :
          /\ IsSome(block_devs[i].mda)
          /\ Unwrap(block_devs[i].mda).data /= Unwrap(committed).data
          /\ Unwrap(block_devs[i].mda).time < Unwrap(committed).time

\* C10, as claimed. remove is all or nothing: a remove_blockdevs given a
\* uuid that is not a current member returns an error and mutates nothing:
\* the member list is what it was and no device is wiped.
C10_RemoveAllOrNothing ==
    [][(IsRemoveStep
          /\ \E k \in 1..Len(last'.uuids) :
                last'.uuids[k] \notin MemberUuids(block_devs))
          => /\ last'.res = "err"
             /\ block_devs' = block_devs
             /\ disk' = disk]_vars

IsAddStep == last'.op = "add"

\* The devices of the members that bear one of the uuids.
DevicesOf(bds, uuids) ==
    {bds[i].device : i \in {j \in 1..Len(bds) : bds[j].uuid \in uuids}}

\* C11, as claimed. remove succeeds on present devices: a remove_blockdevs
\* of distinct uuids that are all members, wherever they sit in the member
\* list, succeeds unless the wipe fails; afterwards exactly those devices
\* are wiped and are no longer members, and every other member still is.
C11_RemovePresent ==
    [][(IsRemoveStep
          /\ NoDup(last'.uuids)
          /\ SeqRange(last'.uuids) \subseteq MemberUuids(block_devs)
          /\ last'.err.kind /= "wipe")
          => /\ last'.res = "ok"
             /\ MemberUuids(block_devs') =
                   MemberUuids(block_devs) \ SeqRange(last'.uuids)
             /\ last'.wiped = DevicesOf(block_devs, SeqRange(last'.uuids))
             /\ \A d \in last'.wiped : disk'[d] = None]_vars

\* C12. Foreign-pool add: an add on a manager with members, with a pool_uuid
\* other than theirs, returns the Invalid error of the pool check before
\* process_and_verify_devices sees a path; the members and the headers on
\* the devices are what they were.
C12_ForeignPoolAdd ==
    [][(IsAddStep
          /\ block_devs /= <<>>
          /\ \A i \in 1..Len(block_devs) :
                 block_devs[i].pool_uuid /= last'.pool)
          => /\ last'.res = "err"
             /\ last'.err.kind = "Invalid:pool"
             /\ last'.inspected = <<>>
             /\ last'.added = <<>>
             /\ block_devs' = block_devs
             /\ disk' = disk]_vars

\* A rejected add of another pool's uuid with a path that no pool claims.
C12_Witness ==
    /\ last.op = "add"
    /\ last.err.kind = "Invalid:pool"
    /\ block_devs /= <<>>
    /\ block_devs[1].pool_uuid /= last.pool
    /\ \E k \in 1..Len(last.paths) : disk[last.paths[k]] = None

\* C16. Pool agreement: in every state reached by initialize, add (with any
\* pool_uuid, also on a manager without members) and remove_blockdevs, all
\* members carry the same pool uuid.
C16_PoolAgreement ==
    \A i, j \in 1..Len(block_devs) :
        block_devs[i].pool_uuid = block_devs[j].pool_uuid

\* An add with another pool's uuid has succeeded (on a manager that had no
\* member), and a later add has brought a further member.
C16_Witness ==
    /\ last.op = "add"
    /\ last.res = "ok"
    /\ last.pool = PoolB
    /\ Len(block_devs) >= 2
    /\ Len(last.added) < Len(block_devs)

\* Every member carries encryption info, and the same.
Encrypted(bds) ==
    /\ bds /= <<>>
    /\ \A i \in 1..Len(bds) :
          /\ IsSome(bds[i].encryption_info)
          /\ bds[i].encryption_info = bds[1].encryption_info

\* C13. Different-key add: on a manager with encryption (every member
\* carries the same encryption info), when the key in the keyring unlocks
\* none of the members, add returns an error, the member list is what it
\* was and no header is written to a device.
C13_DifferentKeyAdd ==
    [][(IsAddStep
          /\ Encrypted(block_devs)
          /\ \A i \in 1..Len(block_devs) : block_devs[i].luks_key /= keyring)
          => /\ last'.res = "err"
             /\ last'.added = <<>>
             /\ block_devs' = block_devs
             /\ disk' = disk]_vars

\* An add refused for the key, on an encrypted manager, with a path that no
\* pool claims.
C13_Witness ==
    /\ last.op = "add"
    /\ last.res = "err"
    /\ last.err.kind = "Invalid:key"
    /\ Encrypted(block_devs)
    /\ \E k \in 1..Len(last.paths) : disk[last.paths[k]] = None

\* What C14 claims of an add step.
SameKeyAddSucceeds ==
    /\ last'.res = "ok"
    /\ Len(last'.added) = Len(last'.paths)
    /\ Len(block_devs') = Len(block_devs) + Len(last'.paths)
    /\ SubSeq(block_devs', 1, Len(block_devs)) = block_devs
    /\ \A k \in 1..Len(last'.paths) :
          LET new == block_devs'[Len(block_devs) + k]
          IN  /\ new.device = last'.paths[k]
              /\ new.uuid = last'.added[k]
              /\ new.encryption_info = block_devs[1].encryption_info

\* The add steps C14 is about: the manager is encrypted, the key in the
\* keyring unlocks its members, the pool uuid is the manager's and no pool
\* claims any of the paths.
SameKeyAddStep ==
    /\ IsAddStep
    /\ Encrypted(block_devs)
    /\ \A i \in 1..Len(block_devs) : block_devs[i].luks_key = keyring
    /\ last'.pool = block_devs[1].pool_uuid
    /\ \A k \in 1..Len(last'.paths) : disk[last'.paths[k]] = None

C15_EncryptionAgreement ==
    /\ \A i, j \in 1..Len(block_devs) :
          block_devs[i].encryption_info = block_devs[j].encryption_info
    /\ last.err.kind /= "assertion"

IsBindStep == last'.op = "bind"
IsUnbindStep == last'.op = "unbind"

\* The Clevis binding the members carry (an Option), and whether they all
\* carry one.
Binding(bds) == Unwrap(bds[1].encryption_info).clevis_info
Bound(bds) == Encrypted(bds) /\ IsSome(Binding(bds))

\* A call that made no call on a device, created no key filesystem and
\* left every member as it was.
BindDidNothing ==
    /\ last'.calls = <<>>
    /\ ~last'.key_fs
    /\ block_devs' = block_devs

\* C17, as claimed. Idempotent bind: on a manager whose members carry the
\* binding (p, c), bind_clevis(p, c) returns false and bind_clevis(p', c')
\* with (p', c') /= (p, c) returns an error; in both cases nothing is
\* called on a device, no key filesystem is created and the members are
\* unchanged.
C17_IdempotentBindOriginal ==
    [][(IsBindStep /\ Bound(block_devs))
          => /\ last'.res =
                   IF <<last'.pin, Unwrap(last'.config)>> =
                          Unwrap(Binding(block_devs))
                   THEN "false" ELSE "err"
             /\ BindDidNothing]_vars

\* C17, amended. The comparison is made with the configuration as
\* interpret_clevis_config leaves it: bind_clevis(p', c') returns false when
\* (p', c') so normalised is the binding (p, c) the members carry, and an
\* error otherwise, in both cases without a call on a device, a key
\* filesystem or a change of the members.  A bind_clevis(p, c) that returns
\* true leaves every member with the binding (p, c normalised), so that a
\* second bind_clevis(p, c) returns false.
C17_IdempotentBind ==
    [][IsBindStep
          => LET interp == InterpretClevisConfig(last'.pin,
                                                 Unwrap(last'.config))
             IN  /\ Bound(block_devs)
                      => /\ last'.res =
                               IF /\ interp.ok
                                  /\ <<last'.pin, interp.config>> =
                                         Unwrap(Binding(block_devs))
                               THEN "false" ELSE "err"
                         /\ BindDidNothing
                 /\ last'.res = "true"
                      => /\ Bound(block_devs')
                         /\ Binding(block_devs') =
                               Some(<<last'.pin, interp.config>>)]_vars

\* A bind_clevis that returned false for a configuration that is not the
\* one the members carry, but is normalised to it.
C17_Witness ==
    /\ last.op = "bind"
    /\ last.res = "false"
    /\ Bound(block_devs)
    /\ Len(block_devs) = 2
    /\ <<last.pin, Unwrap(last.config)>> /= Unwrap(Binding(block_devs))

\* The calls of one kind among the calls made on the devices.
CallsOf(calls, fn) ==
    LET Is(c) == c.fn = fn
    IN  SelectSeq(calls, Is)

\* C18. Rollback protocol: bind_clevis binds the members in storage order;
\* when the bind of member k is the first to fail, no bind is attempted
\* after it, unbind is then called once on each of the members before k and
\* on no other, and the call returns the error of member k's bind, whether
\* the unbinds succeed or not.
C18_BindRollback ==
    [][(IsBindStep
          /\ \E c \in 1..Len(last'.calls) :
                 last'.calls[c].fn = "bind" /\ ~last'.calls[c].ok)
          => LET binds == CallsOf(last'.calls, "bind")
                 unbinds == CallsOf(last'.calls, "unbind")
                 k == Len(binds)
             IN  /\ last'.calls = binds \o unbinds
                 /\ k <= Len(block_devs)
                 /\ \A m \in 1..k :
                       /\ binds[m].uuid = block_devs[m].uuid
                       /\ binds[m].ok = (m < k)
                 /\ Len(unbinds) = k - 1
                 /\ \A m \in 1..(k - 1) : unbinds[m].uuid = block_devs[m].uuid
                 /\ last'.res = "err"
                 /\ last'.err = Err("bind", block_devs[k].uuid)]_vars

\* A bind_clevis in which the bind of the second member failed and the
\* unbind of the first, rolled back, failed too.
C18_Witness ==
    /\ last.op = "bind"
    /\ last.res = "err"
    /\ Len(last.calls) = 3
    /\ last.calls[2].fn = "bind" /\ ~last.calls[2].ok
    /\ last.calls[3].fn = "unbind" /\ ~last.calls[3].ok

\* The binding of one member (None on a member without encryption).
BindingOf(bd) ==
    IF bd.encryption_info = None THEN None
    ELSE Unwrap(bd.encryption_info).clevis_info

\* C19, as claimed. unbind_clevis attempts every member: on a manager whose
\* members carry a binding, unbind is called on every member, also after a
\* member whose unbind failed; the call returns true when every unbind
\* succeeded and an error otherwise, and binds no member again.
C19_UnbindEveryMemberOriginal ==
    [][(IsUnbindStep /\ Bound(block_devs))
          => /\ Len(last'.calls) = Len(block_devs)
             /\ \A m \in 1..Len(block_devs) :
                   /\ last'.calls[m].fn = "unbind"
                   /\ last'.calls[m].uuid = block_devs[m].uuid
                   /\ last'.calls[m].ok => BindingOf(block_devs'[m]) = None
             /\ last'.res =
                   IF \A m \in 1..Len(block_devs) : last'.calls[m].ok
                   THEN "true" ELSE "err"]_vars

\* C19, amended. unbind_clevis calls unbind on the members in storage
\* order and stops at the first that fails: the members after it are not
\* attempted and keep their binding.  It returns true when every unbind
\* succeeded and the error of the failed unbind otherwise, and binds no
\* member again: the members unbound stay unbound.
C19_UnbindUntilFailure ==
    [][(IsUnbindStep /\ Bound(block_devs))
          => LET calls == last'.calls
                 k == Len(calls)
             IN  /\ k <= Len(block_devs)
                 /\ Len(block_devs') = Len(block_devs)
                 /\ \A m \in 1..k :
                       /\ calls[m].fn = "unbind"
                       /\ calls[m].uuid = block_devs[m].uuid
                       /\ m < k => calls[m].ok
                 /\ last'.res = "true"
                       <=> (k = Len(block_devs) /\ \A m \in 1..k : calls[m].ok)
                 /\ last'.res /= "true"
                       => /\ last'.res = "err"
                          /\ ~calls[k].ok
                          /\ last'.err = Err("unbind", block_devs[k].uuid)
                 /\ \A m \in 1..Len(block_devs) :
                       BindingOf(block_devs'[m]) =
                           IF m <= k /\ calls[m].ok THEN None
                           ELSE BindingOf(block_devs[m])]_vars

\* An unbind_clevis on two bound members in which the unbind of the first
\* failed: the second was not attempted.
C19_Witness ==
    /\ last.op = "unbind"
    /\ last.res = "err"
    /\ Len(block_devs) = 2
    /\ Len(last.calls) = 1
    /\ ~last.calls[1].ok
    /\ IsSome(BindingOf(block_devs[2]))

\* No member carries a binding.
NoBinding(bds) == \A m \in 1..Len(bds) : BindingOf(bds[m]) = None

\* An unbind step that called nothing on a device and left the members as
\* they were.
UnbindDidNothing ==
    /\ last'.calls = <<>>
    /\ block_devs' = block_devs

\* C20, as claimed. unbind_clevis without a binding: on a manager on which
\* no binding is present, its members keyring-bound or not encrypted at
\* all, unbind_clevis returns false, calls unbind on no member and changes
\* nothing.
C20_UnbindUnboundOriginal ==
    [][(IsUnbindStep /\ NoBinding(block_devs))
          => /\ last'.res = "false"
             /\ UnbindDidNothing]_vars

\* C20, amended. On a manager whose members are keyring-bound without a
\* binding unbind_clevis returns false; on a manager whose members are not
\* encrypted (or that has no member) it returns the error that the pool
\* does not appear to be encrypted.  In both cases it calls unbind on no
\* member and changes nothing.
C20_UnbindUnbound ==
    [][(IsUnbindStep /\ NoBinding(block_devs))
          => /\ Encrypted(block_devs) => last'.res = "false"
             /\ (\A m \in 1..Len(block_devs) :
                     block_devs[m].encryption_info = None)
                  => /\ last'.res = "err"
                     /\ last'.err.kind = "not_encrypted"
             /\ UnbindDidNothing]_vars

\* An unbind_clevis that returned false on a manager of two keyring-bound
\* members without a binding.
C20_Witness ==
    /\ last.op = "unbind"
    /\ last.res = "false"
    /\ Len(block_devs) = 2
    /\ Encrypted(block_devs)
    /\ NoBinding(block_devs)

\* C21: map_to_dm returns one line per segment, in the order of the input;
\* line i starts at the sum of the lengths of the segments before it, has
\* the length of segment i and is backed by (device, start) of segment i;
\* so the logical ranges of the lines tile [0, sum of the lengths): every
\* sector below the sum lies in exactly one line and no line reaches the sum
\* or beyond.
LinesCovering(table, x) ==
    {i \in 1..Len(table) :
        table[i].start <= x /\ x < table[i].start + table[i].length}

C21_TargetTableTiling ==
    last.op = "map_to_dm" =>
        LET bsegs == last.bsegs
            table == last.table
            total == SegsSum(bsegs)
        IN  /\ Len(table) = Len(bsegs)
            /\ \A i \in 1..Len(bsegs) :
                  /\ table[i].start = SegsSum(SubSeq(bsegs, 1, i - 1))
                  /\ table[i].length = bsegs[i].length
                  /\ table[i].params = [device |-> bsegs[i].device,
                                        start_offset |-> bsegs[i].start]
                  /\ table[i].start + table[i].length <= total
            /\ \A x \in 0..(total - 1) :
                  Cardinality(LinesCovering(table, x)) = 1

\* Two segments of non-zero length handed over against the order of their
\* devices and of their starts.
C21_Witness ==
    /\ last.op = "map_to_dm"
    /\ Len(last.bsegs) = 2
    /\ last.bsegs[1].length > 0
    /\ last.bsegs[2].length > 0
    /\ last.bsegs[1].device > last.bsegs[2].device
    /\ last.bsegs[1].start > last.bsegs[2].start
    /\ Len(last.table) = 2

IsDiscovery == last.op = "find_all"

\* The entries of the database the enumerator of the primary scan yields.
Tagged(db) == {k \in 1..Len(db) : db[k].fs_type = "stratis"}

\* C22: find_all runs the fallback scan exactly when the primary scan
\* returned an empty map; when the primary scan returned a map with a
\* device in it, that map is the result and the fallback scan is not run.
C22_DiscoveryFallback ==
    IsDiscovery =>
        /\ ("fallback" \in SeqRange(last.scans)) <=>
              (last.enum_ok[1] /\ last.primary = {})
        /\ (last.enum_ok[1] /\ last.primary /= {}) =>
              /\ last.res = "ok"
              /\ last.pool_map = last.primary
              /\ last.scans = <<"primary">>

\* A database in which the primary scan finds one device while the
\* fallback scan would find another one as well.
C22_Witness ==
    /\ IsDiscovery
    /\ last.scans = <<"primary">>
    /\ Cardinality(last.pool_map) = 1
    /\ Cardinality(ScanBlock(last.udev, {})) = 2

\* The scan whose map find_all returned, and the entries it went over.
FinalScan == last.scans[Len(last.scans)]
Scanned ==
    IF FinalScan = "primary" THEN Tagged(last.udev) ELSE 1..Len(last.udev)

\* The per-device failures: no devnode, no device number, the devnode
\* cannot be opened, the header cannot be read or decoded, the ownership or
\* multipath status cannot be determined.
Failing(dev) ==
    \/ dev.devnode = None
    \/ dev.devnum = None
    \/ dev.ident \in {"open_err", "read_err"}
    \/ dev.multipath = "err"

\* A device that is for Stratis to use: initialized, no multipath member,
\* not claimed by anyone else, with a Stratis header.
Usable(dev) ==
    /\ dev.initialized
    /\ dev.multipath = "no"
    /\ dev.fs_type /= "other"
    /\ dev.ident \in Pools

EntryOf(dev) ==
    [pool |-> dev.ident, device |-> Unwrap(dev.devnum),
     devnode |-> Unwrap(dev.devnode)]

\* C23: a per-device failure never aborts discovery: find_all returns an
\* error exactly when an enumerator could not be made or scanned with;
\* otherwise a failing device is skipped (the map has no entry with its
\* devnode or number) and every other device of the scan that is usable is
\* in the map, wherever in the scan the failing devices are.
C23_DiscoverySkipsFailures ==
    IsDiscovery =>
        /\ (last.res = "err") <=> (FALSE \in SeqRange(last.enum_ok))
        /\ last.res = "ok" =>
              \A k \in Scanned :
                  LET dev == last.udev[k]
                  IN  /\ Failing(dev) =>
                            \A e \in last.pool_map :
                                e.device /= k /\ e.devnode /= k
                      /\ (~Failing(dev) /\ Usable(dev)) =>
                            EntryOf(dev) \in last.pool_map

\* A scan whose first device fails and whose second device is in the map.
C23_Witness ==
    /\ IsDiscovery
    /\ last.res = "ok"
    /\ Len(last.udev) = 2
    /\ Scanned = {1, 2}
    /\ Failing(last.udev[1])
    /\ last.udev[1].initialized
    /\ last.udev[1].multipath = "no"
    /\ Cardinality(last.pool_map) = 1
    /\ \E e \in last.pool_map : e.device = 2

\* C28: every entry (pool, device number, devnode) of the map find_all
\* returns, on either path, is that of a device of the database that is
\* initialized, is known not to be a multipath member, is not claimed by
\* anyone else, and whose header was read and names that pool; a device
\* without a valid Stratis header has no entry.
C28_DiscoveryExclusion ==
    IsDiscovery =>
        /\ \A e \in last.pool_map :
              \E k \in Scanned :
                  LET dev == last.udev[k]
                  IN  /\ dev.devnum = Some(e.device)
                      /\ dev.devnode = Some(e.devnode)
                      /\ dev.initialized
                      /\ dev.multipath = "no"
                      /\ dev.fs_type /= "other"
                      /\ dev.ident = e.pool
        /\ \A k \in 1..Len(last.udev) :
              last.udev[k].ident \notin Pools =>
                  \A e \in last.pool_map : e.device /= k /\ e.devnode /= k

\* The map holds one device; the other device of the scan has a Stratis
\* header and is tagged as Stratis but is a multipath member.
C28_Witness ==
    /\ IsDiscovery
    /\ last.res = "ok"
    /\ Len(last.udev) = 2
    /\ Cardinality(last.pool_map) = 1
    /\ \E k \in Scanned :
          /\ last.udev[k].multipath = "yes"
          /\ last.udev[k].initialized
          /\ last.udev[k].fs_type = "stratis"
          /\ last.udev[k].ident \in Pools
          /\ last.udev[k].devnum /= None

\* The paths of an add are all members already / all bear the manager's
\* pool without being members.
MemberDevices(bds) == {bds[i].device : i \in 1..Len(bds)}
OwnPoolAdd ==
    /\ IsAddStep
    /\ block_devs /= <<>>
    /\ last'.pool = block_devs[1].pool_uuid
ReAdd ==
    /\ OwnPoolAdd
    /\ SeqRange(last'.paths) \subseteq MemberDevices(block_devs)
StrayAdd ==
    /\ OwnPoolAdd
    /\ \A k \in 1..Len(last'.paths) :
          /\ disk[last'.paths[k]] = Some(last'.pool)
          /\ last'.paths[k] \notin MemberDevices(block_devs)
AddChangedNothing ==
    /\ block_devs' = block_devs
    /\ disk' = disk
    /\ last'.added = <<>>

\* C24, as claimed. Re-adding members is a no-op: an add with the manager's
\* pool and paths that are all members already succeeds, returns no new
\* uuid, writes no header and leaves the member list as it is; an add with
\* paths that bear the manager's pool on disk without being members
\* returns an error and leaves the member list as it is.
C24_ReAddNoOpOriginal ==
    [][/\ ReAdd => (last'.res = "ok" /\ AddChangedNothing)
       /\ StrayAdd => (last'.res = "err" /\ AddChangedNothing)]_vars

\* C24, amended. As claimed, but the re-add succeeds only on a manager
\* that has no encryption or whose members agree on their encryption info
\* and whose first member the key in the keyring unlocks; on any other
\* manager it fails, and in every case it changes nothing.
C24_ReAddNoOp ==
    [][/\ ReAdd =>
            /\ AddChangedNothing
            /\ (last'.res = "ok") <=>
                  \/ \A i \in 1..Len(block_devs) :
                         block_devs[i].encryption_info = None
                  \/ /\ \A i \in 1..Len(block_devs) :
                            block_devs[i].encryption_info =
                                block_devs[1].encryption_info
                     /\ block_devs[1].luks_key = keyring
       /\ StrayAdd => (last'.res = "err" /\ AddChangedNothing)]_vars

\* A re-add of both members of an encrypted manager has succeeded.
C24_Witness ==
    /\ last.op = "add"
    /\ last.res = "ok"
    /\ Len(last.paths) = 2
    /\ last.added = <<>>
    /\ SeqRange(last.paths) = MemberDevices(block_devs)
    /\ Encrypted(block_devs)

IsInitializeStep == last'.op = "initialize"

PlaceOf(bds, uuid) == CHOOSE i \in 1..Len(bds) : bds[i].uuid = uuid

\* The sectors the first n lists of a result take from one member.
TakenFrom(lists, n, uuid) ==
    LET segs == Flatten(SubSeq(lists, 1, n))
    IN  SumSeq([k \in 1..Len(segs) |->
                   IF segs[k].uuid = uuid THEN segs[k].length ELSE 0])

\* C26: allocation order.  In the list alloc_space returns for a request,
\* the segments are in the storage order of their members and, within a
\* member, in ascending order of their starts; a segment is taken from a
\* member only when every member before it has no sector left (the
\* earlier requests of the call and this one have taken them all); every
\* segment has a length above 0, and the list of a request of size 0 is
\* empty.
C26_AllocationOrder ==
    [][(IsAllocStep /\ last'.res = "some") =>
        \A n \in 1..Len(last'.lists) :
            LET list == last'.lists[n]
            IN  /\ \A a, b \in 1..Len(list) :
                      a < b =>
                        \/ PlaceOf(block_devs, list[a].uuid) <
                              PlaceOf(block_devs, list[b].uuid)
                        \/ /\ list[a].uuid = list[b].uuid
                           /\ list[a].start < list[b].start
                /\ \A a \in 1..Len(list) :
                      /\ list[a].length > 0
                      /\ \A j \in 1..(PlaceOf(block_devs, list[a].uuid) - 1) :
                            Available(block_devs[j]) =
                                TakenFrom(last'.lists, n, block_devs[j].uuid)
                /\ last'.sizes[n] = 0 => list = <<>>]_vars

\* A call with a request of size 0 and a request that took the last
\* sectors of the first member and went on to the second.
C26_Witness ==
    /\ last.op = "alloc"
    /\ last.res = "some"
    /\ Len(block_devs) = 2
    /\ \E n, m \in 1..Len(last.lists) :
          /\ last.sizes[m] = 0
          /\ Len(last.lists[n]) = 2
          /\ last.lists[n][1].uuid = block_devs[1].uuid
          /\ last.lists[n][2].uuid = block_devs[2].uuid

\* C27, as claimed. Proof of key in add: on a manager with encryption, an
\* add that comes to the key check gets past it exactly when the key in
\* the keyring unlocks at least one member, be it the first in storage
\* order or another.
C27_ProofOfKey ==
    [][(/\ IsAddStep
        /\ Encrypted(block_devs)
        /\ last'.err.kind \notin {"Invalid:pool", "devices", "assertion"})
       => ((last'.err.kind /= "Invalid:key") <=>
             \E i \in 1..Len(block_devs) : block_devs[i].luks_key = keyring)]_vars

\* A bind in the fan-out failed and every unbind of the rollback succeeded.
BindFailedRolledBack ==
    /\ IsBindStep
    /\ \E c \in 1..Len(last'.calls) :
          last'.calls[c].fn = "bind" /\ ~last'.calls[c].ok
    /\ \A c \in 1..Len(last'.calls) :
          last'.calls[c].fn = "unbind" => last'.calls[c].ok

\* C29: a failed bind leaves no binding.  When the bind of a member fails
\* during the fan-out and every unbind of the rollback succeeds, the call
\* returns an error, no member carries a binding afterwards, every member
\* has the encryption info it had before the call, and the key filesystem
\* made for the call has been released; on a manager without encryption
\* bind_clevis returns an error, calls no device and changes nothing.
C29_FailedBindLeavesNoBinding ==
    [][/\ BindFailedRolledBack =>
            /\ last'.res = "err"
            /\ NoBinding(block_devs')
            /\ Len(block_devs') = Len(block_devs)
            /\ \A m \in 1..Len(block_devs) :
                  block_devs'[m].encryption_info = block_devs[m].encryption_info
            /\ last'.key_fs /\ last'.key_fs_dropped
       /\ (IsBindStep
             /\ \A m \in 1..Len(block_devs) :
                    block_devs[m].encryption_info = None) =>
            /\ last'.res = "err"
            /\ last'.calls = <<>>
            /\ ~last'.key_fs
            /\ block_devs' = block_devs]_vars

\* The bind of the second member has failed after the first was bound, the
\* first was unbound again, and no member carries a binding.
C29_Witness ==
    /\ last.op = "bind"
    /\ last.res = "err"
    /\ Len(last.calls) = 3
    /\ last.calls[1].fn = "bind" /\ last.calls[1].ok
    /\ last.calls[2].fn = "bind" /\ ~last.calls[2].ok
    /\ last.calls[3].fn = "unbind" /\ last.calls[3].ok
    /\ NoBinding(block_devs)

\* C30, as claimed. remove_blockdevs never crashes: on every manager, one
\* without members included, a remove_blockdevs of a non-empty list of
\* uuids returns success or an error; on a manager without members it
\* returns the error of a uuid not found.
C30_RemoveNeverCrashes ==
    [][(IsRemoveStep /\ last'.uuids /= <<>>)
          => /\ last'.res \in {"ok", "err"}
             /\ block_devs = <<>> =>
                   (last'.res = "err" /\ last'.err.kind = "not_found")]_vars

====
